---- MODULE Spec2Model ----
(***************************************************************************)
(* Knowledge-based statistical potential for RNA structures:               *)
(* train.py (parse -> distance histogram -> aggregate -> log-odds scores   *)
(* -> score files, with a process-pool fan-out) and scoring.py (read the   *)
(* score files, score one structure).                                      *)
(*                                                                         *)
(* Numbers.  Coordinates are integers in units of half an Angstrom.        *)
(* Scores are fixed-point integers in units of 10^-6 (Micro); math.log is  *)
(* computed in that fixed-point arithmetic.  A score file line is the text *)
(* of a 4-decimal fixed-precision number.                                  *)
(***************************************************************************)
EXTENDS Integers, Sequences, FiniteSets, TLC

\* ------------------------------------------------------------------ bounds
\* longest list of PDB files handed to one training run
MaxFiles == 2
\* how many copies of a base histogram an aggregated histogram may hold
MaxCopies == 2

\* --------------------------------------------------------------- constants
VALID_RESIDUES == {"A", "U", "G", "C"}
VALID_PAIRS == {"AA", "AC", "AG", "AU", "CC", "CG", "CU", "GG", "GU", "UU"}

\* np.zeros(20) / [0] * 20: the number of distance bins
NumBins == 20
\* abs(res_id1 - res_id2) >= 3
MinSeparation == 3
\* the sentinel and cap of a score: 10
CapValue == 10
\* ref_freq = 1 / 20, as the denominator
RefDenominator == 20

Micro == 1000 * 1000
Cap == CapValue * Micro
Bins == 0 .. (NumBins - 1)

Abs(n) == IF n < 0 THEN -n ELSE n

\* ------------------------------------------------------------- arithmetic
\* floor(r * 10^n / D) for 0 <= r < D, by long division (n decimal digits)
RECURSIVE DivDigits(_, _, _)
DivDigits(r, D, n) ==
    IF n = 0 THEN 0
    ELSE LET t == r * 10
         IN  (t \div D) * (10 ^ (n - 1)) + DivDigits(t % D, D, n - 1)

\* floor(a * b / Micro) for 0 <= a, b <= Micro, without leaving 32 bits
MulMicro(a, b) ==
    LET X == (a \div 1000) * b
        Y == (a % 1000) * b
    IN  (X \div 1000) + (((X % 1000) + (Y \div 1000)) \div 1000)

\* sum of term/k + term*z2/(k+2) + ... : the series of atanh, in Micro
RECURSIVE AtanhSeries(_, _, _)
AtanhSeries(term, z2, k) ==
    IF term = 0 THEN 0
    ELSE (term \div k) + AtanhSeries(MulMicro(term, z2), z2, k + 2)

\* the largest k with d * 2^k <= n, for n >= d >= 1
RECURSIVE Log2Floor(_, _, _)
Log2Floor(n, d, k) ==
    IF d <= (n \div (2 ^ (k + 1))) THEN Log2Floor(n, d, k + 1) ELSE k

\* ln(n / d) in Micro, for n >= d >= 1:
\* n/d = 2^k * m with m in [1,2), ln m = 2 atanh((m-1)/(m+1))
LnRatio(n, d) ==
    LET k == Log2Floor(n, d, 0)
        D == d * (2 ^ k)
        z == DivDigits(n - D, n + D, 6)
    IN  k * 693147 + 2 * AtanhSeries(z, MulMicro(z, z), 1)

\* math.log(n / d) in Micro, for n, d >= 1
math_log(n, d) == IF n >= d THEN LnRatio(n, d) ELSE -LnRatio(d, n)

\* int(math.sqrt(q)) for a non-negative rational q with floor n
ISqrt(n) == CHOOSE r \in 0 .. n : r * r <= n /\ n < (r + 1) * (r + 1)

\* ------------------------------------------------------------ dictionaries
EmptyDict == << >>

Get(d, key, default) == IF key \in DOMAIN d THEN d[key] ELSE default

Put(d, key, val) ==
    [k \in (DOMAIN d) \cup {key} |-> IF k = key THEN val ELSE d[k]]

\* ----------------------------------------------------------------- train.py
initialize_counts == [b \in Bins |-> 0]

\* ord() of the one-letter residue names, the order sorted() uses
Ord(c) ==
    CASE c = "A" -> 65 [] c = "C" -> 67 [] c = "G" -> 71 [] c = "U" -> 85

\* ''.join(sorted([res_name1, res_name2]))
PairKey(n1, n2) == IF Ord(n1) <= Ord(n2) THEN n1 \o n2 ELSE n2 \o n1

\* sum((a - b) ** 2 for a, b in zip(coord1, coord2)), in (half Angstrom)^2
SqDist(c1, c2) ==
    (c1[1] - c2[1]) * (c1[1] - c2[1])
    + (c1[2] - c2[2]) * (c1[2] - c2[2])
    + (c1[3] - c2[3]) * (c1[3] - c2[3])

\* int(dist): the squared distance in Angstrom^2 is SqDist / 4
BinIndex(c1, c2) == ISqrt(SqDist(c1, c2) \div 4)

\* A line of a PDB file, by the columns parse_pdb looks at:
\*   startsATOM  line.startswith("ATOM")
\*   hasC3       "C3'" in line
\*   len         len(line)
\*   chain       line[21].strip()
\*   res_id_num  whether line[22:26].strip() is an integer literal
\*   res_id      its value
\*   res_name    line[17:20].strip()
\*   coord_num   whether the three coordinate columns are float literals
\*   coord       their values
ParseOk(residues) == [raised |-> "none", residues |-> residues]
ParseRaise(kind) == [raised |-> kind, residues |-> << >>]

\* the body of the for loop of parse_pdb, lines k .. Len(lines)
RECURSIVE parse_lines(_, _, _)
parse_lines(lines, k, residues) ==
    IF k > Len(lines) THEN ParseOk(residues)
    ELSE LET line == lines[k] IN
         IF ~(line.startsATOM /\ line.hasC3)
         THEN parse_lines(lines, k + 1, residues)
         ELSE IF line.len <= 21 THEN ParseRaise("IndexError")
         ELSE IF ~line.res_id_num THEN ParseRaise("ValueError")
         ELSE IF line.res_name \notin VALID_RESIDUES
              THEN parse_lines(lines, k + 1, residues)
         ELSE IF ~line.coord_num THEN ParseRaise("ValueError")
         ELSE parse_lines(lines, k + 1,
                  Append(residues,
                         [chain |-> line.chain, res_id |-> line.res_id,
                          res_name |-> line.res_name, coord |-> line.coord]))

\* parse_pdb(file_path): file is [readable, lines]
parse_pdb(file) ==
    IF ~file.readable THEN ParseRaise("OSError")
    ELSE parse_lines(file.lines, 1, << >>)

\* count_pair with the separation test written "> 3"
count_pair_gt(distances, r1, r2) ==
    IF r1.chain = r2.chain /\ Abs(r1.res_id - r2.res_id) > MinSeparation
    THEN LET bin_index == BinIndex(r1.coord, r2.coord) IN
         IF bin_index < NumBins
         THEN LET pair == PairKey(r1.res_name, r2.res_name) IN
              IF pair \in VALID_PAIRS
              THEN LET bins == Get(distances, pair, initialize_counts)
                   IN  Put(distances, pair,
                           [bins EXCEPT ![bin_index] = @ + 1])
              ELSE distances
         ELSE distances
    ELSE distances

\* the body of the inner loop of compute_distances for residues r1, r2
count_pair(distances, r1, r2) ==
    IF r1.chain = r2.chain /\ Abs(r1.res_id - r2.res_id) >= MinSeparation
    THEN LET bin_index == BinIndex(r1.coord, r2.coord) IN
         IF bin_index < NumBins
         THEN LET pair == PairKey(r1.res_name, r2.res_name) IN
              IF pair \in VALID_PAIRS
              THEN LET bins == Get(distances, pair, initialize_counts)
                   IN  Put(distances, pair,
                           [bins EXCEPT ![bin_index] = @ + 1])
              ELSE distances
         ELSE distances
    ELSE distances

\* for j, (...) in enumerate(residues)
RECURSIVE inner_loop(_, _, _, _)
inner_loop(residues, i, j, distances) ==
    IF j > Len(residues) THEN distances
    ELSE inner_loop(residues, i, j + 1,
                    count_pair(distances, residues[i], residues[j]))

\* for i, (...) in enumerate(residues)
RECURSIVE outer_loop(_, _, _)
outer_loop(residues, i, distances) ==
    IF i > Len(residues) THEN distances
    ELSE outer_loop(residues, i + 1, inner_loop(residues, i, 1, distances))

\* compute_distances starting from a zero histogram for every valid pair
compute_distances_allkeys(residues) ==
    outer_loop(residues, 1, [pair \in VALID_PAIRS |-> initialize_counts])

compute_distances(residues) == outer_loop(residues, 1, EmptyDict)

\* add_bins with "=" for "+="
add_bins_overwrite(old, bins) == bins

\* for bin_idx, count in enumerate(bins): combined_counts[pair][bin_idx] += count
add_bins(old, bins) == [b \in Bins |-> old[b] + bins[b]]

\* the body of "for distances in all_distances" of aggregate_counts
aggregate_one(combined_counts, distances) ==
    LET pairs == {pair \in DOMAIN distances : pair \in VALID_PAIRS}
    IN  [pair \in (DOMAIN combined_counts) \cup pairs |->
            IF pair \in pairs
            THEN add_bins(Get(combined_counts, pair, initialize_counts),
                          distances[pair])
            ELSE combined_counts[pair]]

RECURSIVE aggregate_from(_, _, _)
aggregate_from(all_distances, k, combined_counts) ==
    IF k > Len(all_distances) THEN combined_counts
    ELSE aggregate_from(all_distances, k + 1,
                        aggregate_one(combined_counts, all_distances[k]))

aggregate_counts(all_distances) == aggregate_from(all_distances, 1, EmptyDict)

\* sum(counts)
RECURSIVE SumBins(_, _)
SumBins(counts, b) ==
    IF b >= NumBins THEN 0 ELSE counts[b] + SumBins(counts, b + 1)

\* score_bin without the cap of line 63
score_bin_nocap(count, total_counts) ==
    IF total_counts > 0 /\ count > 0
    THEN -math_log(RefDenominator * count, total_counts)
    ELSE Cap

\* lines 60-63 of train.py: one bin's capped score, in Micro.
\* observed_freq / ref_freq is (count / total_counts) / (1 / 20)
score_bin(count, total_counts) ==
    LET observed_positive == total_counts > 0 /\ count > 0
        score == IF observed_positive
                 THEN -math_log(RefDenominator * count, total_counts)
                 ELSE Cap
    IN  IF score < Cap THEN score ELSE Cap

calculate_scores(combined_counts) ==
    [pair \in DOMAIN combined_counts |->
        LET counts == combined_counts[pair]
            total_counts == SumBins(counts, 0)
        IN  [i \in 1 .. NumBins |-> score_bin(counts[i - 1], total_counts)]]

\* Format4 cutting the decimals after the fourth
Format4_trunc(score) ==
    [sign |-> IF score < 0 THEN "-" ELSE "",
     whole |-> (Abs(score) \div 100) \div 10000,
     frac |-> (Abs(score) \div 100) % 10000]

\* f"{score:.4f}": the sign, the integer digits and the four decimals of the
\* score rounded to the nearest 10^-4 (ties to even)
Format4(score) ==
    LET a == Abs(score)
        q == a \div 100
        r == a % 100
        m == IF r > 50 \/ (r = 50 /\ q % 2 = 1) THEN q + 1 ELSE q
    IN  [sign |-> IF score < 0 THEN "-" ELSE "",
         whole |-> m \div 10000, frac |-> m % 10000]

FileName(pair) == pair \o ".txt"

\* AnyPositive with ">= 0"
AnyPositive_ge(pair_scores) == \E i \in DOMAIN pair_scores : pair_scores[i] >= 0

\* any(score > 0 for score in scores[pair])
AnyPositive(pair_scores) == \E i \in DOMAIN pair_scores : pair_scores[i] > 0

\* write_scores(scores, output_dir): the directory after the call
write_scores(scores, dir) ==
    LET written == {pair \in VALID_PAIRS :
                       pair \in DOMAIN scores /\ AnyPositive(scores[pair])}
        names == {FileName(pair) : pair \in written}
    IN  [f \in (DOMAIN dir) \cup names |->
            IF f \in names
            THEN LET pair == CHOOSE p \in written : FileName(p) = f
                 IN  [i \in 1 .. Len(scores[pair]) |-> Format4(scores[pair][i])]
            ELSE dir[f]]

\* process_single_file(pdb_file): the histogram, or the exception raised
process_single_file(file) ==
    LET parsed == parse_pdb(file)
    IN  IF parsed.raised = "none"
        THEN [raised |-> "none", distances |-> compute_distances(parsed.residues)]
        ELSE [raised |-> parsed.raised, distances |-> EmptyDict]

\* --------------------------------------------------------------- scoring.py
\* float(line.strip()) of a line written as above, in Micro
ParseFloat(text) ==
    LET v == text.whole * Micro + text.frac * 100
    IN  IF text.sign = "-" THEN -v ELSE v

read_scores(dir) ==
    [pair \in {p \in VALID_PAIRS : FileName(p) \in DOMAIN dir} |->
        LET lines == dir[FileName(pair)]
        IN  [i \in 1 .. Len(lines) |-> ParseFloat(lines[i])]]

\* lines 42-52 of scoring.py: the loop of compute_distances, repeated there
scoring_distances(residues) == outer_loop(residues, 1, EmptyDict)

\* scoring_bin_score applying the value stored in the table
scoring_bin_score_stored(count, total_counts, stored) == stored

\* lines 60-63 of scoring.py: what one bin adds to pair_score
scoring_bin_score(count, total_counts, stored) ==
    LET observed_positive == total_counts > 0 /\ count > 0
        score == IF observed_positive
                 THEN -math_log(RefDenominator * count, total_counts)
                 ELSE Cap
    IN  IF score < Cap THEN score ELSE Cap

\* for i, count in enumerate(bins): pair_score += min(score, 10)
RECURSIVE pair_score(_, _, _, _)
pair_score(bins, total_counts, stored, i) ==
    IF i >= NumBins THEN 0
    ELSE scoring_bin_score(bins[i], total_counts, stored[i + 1])
         + pair_score(bins, total_counts, stored, i + 1)

\* for pair, bins in distances.items(): if pair in scores: total_score += ...
RECURSIVE total_over(_, _, _)
total_over(distances, scores, todo) ==
    IF todo = {} THEN 0
    ELSE LET pair == CHOOSE p \in todo : TRUE
         IN  (IF pair \in DOMAIN scores
              THEN pair_score(distances[pair], SumBins(distances[pair], 0),
                              scores[pair], 0)
              ELSE 0)
             + total_over(distances, scores, todo \ {pair})

compute_distances_and_scores(residues, scores) ==
    LET distances == scoring_distances(residues)
    IN  total_over(distances, scores, DOMAIN distances)

\* ------------------------------------------------------------ the PDB files
AtomLine(chain, res_id, res_name, coord) ==
    [startsATOM |-> TRUE, hasC3 |-> TRUE, len |-> 80, chain |-> chain,
     res_id_num |-> TRUE, res_id |-> res_id, res_name |-> res_name,
     coord_num |-> TRUE, coord |-> coord]

\* a REMARK / HETATM / TER line
OtherRecord == [AtomLine("A", 1, "A", <<0, 0, 0>>) EXCEPT !.startsATOM = FALSE]
\* an ATOM line of another atom (P, C4', ...)
OtherAtom == [AtomLine("A", 1, "A", <<0, 0, 0>>) EXCEPT !.hasC3 = FALSE]
\* an ATOM C3' line of a residue that is no A, C, G, U; its coordinates are
\* not numeric either, which is never looked at
OtherBase == [AtomLine("A", 3, "PSU", <<0, 0, 0>>) EXCEPT !.coord_num = FALSE]
\* ATOM C3' lines with a non-numeric position, with non-numeric coordinates,
\* and one cut before column 22
BadPosition == [AtomLine("A", 0, "N", <<0, 0, 0>>) EXCEPT !.res_id_num = FALSE]
BadCoord == [AtomLine("A", 9, "G", <<0, 0, 0>>) EXCEPT !.coord_num = FALSE]
ShortLine == [AtomLine("A", 9, "G", <<0, 0, 0>>) EXCEPT !.len = 12]

Readable(lines) == [readable |-> TRUE, lines |-> lines]

\* chain A, positions 1 and 5, A and C, 3.5 Angstrom apart
ExampleFile ==
    Readable(<<OtherRecord, OtherAtom, AtomLine("A", 1, "A", <<0, 0, 0>>),
               OtherBase, AtomLine("A", 5, "C", <<0, 0, 7>>)>>)

\* chain A: G 1 and C 4 at 10 Angstrom (separation exactly 3), U 2 between
\* them (separation < 3).  Chain B: A 1 and A 9 exactly 20 Angstrom apart,
\* C 30 at 19.5 and 0.5 Angstrom from them.
MixedFile ==
    Readable(<<AtomLine("A", 1, "G", <<0, 0, 0>>),
               AtomLine("A", 2, "U", <<0, 0, 2>>),
               AtomLine("A", 4, "C", <<0, 0, 20>>),
               AtomLine("B", 1, "A", <<0, 0, 0>>),
               AtomLine("B", 9, "A", <<0, 0, 40>>),
               AtomLine("B", 30, "C", <<0, 0, 39>>)>>)

MalformedFile ==
    Readable(<<AtomLine("A", 1, "A", <<0, 0, 0>>), BadPosition,
               AtomLine("A", 5, "C", <<0, 0, 7>>)>>)

BadCoordFile == Readable(<<AtomLine("A", 1, "A", <<0, 0, 0>>), BadCoord>>)

ShortLineFile == Readable(<<OtherRecord, ShortLine>>)

MissingFile == [readable |-> FALSE, lines |-> << >>]

\* chain A: G 1 at the origin, G 7 exactly 5 Angstrom from it, U 12 at 19.5
\* Angstrom from G 1 and more than 20 from G 7
ThirdFile ==
    Readable(<<AtomLine("A", 1, "G", <<0, 0, 0>>),
               AtomLine("A", 7, "G", <<6, 8, 0>>),
               AtomLine("A", 12, "U", <<0, 0, 39>>)>>)

FileCatalog ==
    <<ExampleFile, MixedFile, MalformedFile, MissingFile,
      ThirdFile, BadCoordFile, ShortLineFile>>

\* the structures scoring.py may be given
FileIds == DOMAIN FileCatalog

\* the structures a training corpus is made of
TrainFileIds == 1 .. 4

\* ------------------------------------------------------------------- state
VARIABLES
    pc,               \* where the orchestrating process is
    pdb_files,        \* the argument of process_pdb_files_parallel
    fut,              \* the state of each future of executor.map
    result,           \* what each finished worker returned or raised
    collected,        \* how many results list(...) has taken, in input order
    combined_counts,  \* local of process_pdb_files_parallel
    scores,           \* local of process_pdb_files_parallel
    dir,              \* the score directory: file name -> lines
    dir_before,       \* the score directory when the run began
    loaded,           \* scoring.py: what read_scores returned
    eval_state,       \* scoring.py: "none", "scored" or "raised"
    eval_file,        \* scoring.py: the structure scored
    distances,        \* scoring.py: local of compute_distances_and_scores
    total_score       \* scoring.py: what compute_distances_and_scores returned

vars == <<pc, pdb_files, fut, result, collected, combined_counts, scores,
          dir, dir_before, loaded, eval_state, eval_file, distances,
          total_score>>

trainVars == <<pc, pdb_files, fut, result, collected, combined_counts, scores,
               dir_before>>
evalVars == <<loaded, eval_state, eval_file, distances, total_score>>

NoResult == [raised |-> "none", distances |-> EmptyDict]

Workers == 1 .. Len(pdb_files)

Init ==
    /\ pc = "idle"
    /\ pdb_files = << >>
    /\ fut = << >>
    /\ result = << >>
    /\ collected = 0
    /\ combined_counts = EmptyDict
    /\ scores = EmptyDict
    /\ dir = EmptyDict
    /\ dir_before = EmptyDict
    /\ loaded = EmptyDict
    /\ eval_state = "none"
    /\ eval_file = 0
    /\ distances = EmptyDict
    /\ total_score = 0

CorpusSet == UNION {[1 .. n -> TrainFileIds] : n \in 0 .. MaxFiles}

\* train.py is started: executor.map submits one future per file
Submit(files) ==
    /\ pc \in {"idle", "done", "aborted"}
    /\ pc' = "map"
    /\ pdb_files' = files
    /\ fut' = [i \in 1 .. Len(files) |-> "pending"]
    /\ result' = [i \in 1 .. Len(files) |-> NoResult]
    /\ collected' = 0
    /\ combined_counts' = EmptyDict
    /\ scores' = EmptyDict
    /\ dir_before' = dir
    /\ loaded' = EmptyDict
    /\ eval_state' = "none"
    /\ eval_file' = 0
    /\ distances' = EmptyDict
    /\ total_score' = 0
    /\ UNCHANGED dir

\* a worker process takes a pending task
WorkerStart(i) ==
    /\ i \in Workers
    /\ fut[i] = "pending"
    /\ fut' = [fut EXCEPT ![i] = "running"]
    /\ UNCHANGED <<pc, pdb_files, result, collected, combined_counts, scores,
                   dir, dir_before>>
    /\ UNCHANGED evalVars

\* a worker runs process_single_file to its end
WorkerFinish(i) ==
    /\ i \in Workers
    /\ fut[i] = "running"
    /\ LET r == process_single_file(FileCatalog[pdb_files[i]])
       IN  /\ result' = [result EXCEPT ![i] = r]
           /\ fut' = [fut EXCEPT ![i] =
                         IF r.raised = "none" THEN "done" ELSE "failed"]
    /\ UNCHANGED <<pc, pdb_files, collected, combined_counts, scores,
                   dir, dir_before>>
    /\ UNCHANGED evalVars

\* list(executor.map(...)) takes the next result, in input order
Collect ==
    /\ pc = "map"
    /\ collected < Len(pdb_files)
    /\ fut[collected + 1] = "done"
    /\ collected' = collected + 1
    /\ UNCHANGED <<pc, pdb_files, fut, result, combined_counts, scores,
                   dir, dir_before>>
    /\ UNCHANGED evalVars

\* the next result is an exception: the iterator cancels the futures not yet
\* started and the exception leaves list(...)
CollectRaise ==
    /\ pc = "map"
    /\ collected < Len(pdb_files)
    /\ fut[collected + 1] = "failed"
    /\ fut' = [i \in Workers |-> IF fut[i] = "pending" THEN "cancelled" ELSE fut[i]]
    /\ pc' = "raising"
    /\ UNCHANGED <<pdb_files, result, collected, combined_counts, scores,
                   dir, dir_before>>
    /\ UNCHANGED evalVars

\* the with block ends with the exception: shutdown(wait=True), then the
\* exception leaves process_pdb_files_parallel
Shutdown ==
    /\ pc = "raising"
    /\ \A i \in Workers : fut[i] # "running"
    /\ pc' = "aborted"
    /\ UNCHANGED <<pdb_files, fut, result, collected, combined_counts, scores,
                   dir, dir_before>>
    /\ UNCHANGED evalVars

\* AllCollected for a reduction that starts on the first result
AllCollected_first == collected >= 1

\* list(...) has returned: every result was taken
AllCollected == collected = Len(pdb_files)

\* all_distances, the list that list(executor.map(...)) returned
all_distances == [i \in 1 .. collected |-> result[i].distances]

\* lines 87-89: aggregate_counts, calculate_scores, write_scores
Reduce ==
    /\ pc = "map"
    /\ AllCollected
    /\ combined_counts' = aggregate_counts(all_distances)
    /\ scores' = calculate_scores(combined_counts')
    /\ dir' = write_scores(scores', dir)
    /\ pc' = "done"
    /\ UNCHANGED <<pdb_files, fut, result, collected, dir_before>>
    /\ UNCHANGED evalVars

\* scoring.py on one structure: read_scores, parse_pdb,
\* compute_distances_and_scores
Evaluate(f) ==
    /\ pc \in {"idle", "done", "aborted"}
    /\ loaded' = read_scores(dir)
    /\ eval_file' = f
    /\ LET parsed == parse_pdb(FileCatalog[f])
       IN  IF parsed.raised = "none"
           THEN /\ eval_state' = "scored"
                /\ distances' = scoring_distances(parsed.residues)
                /\ total_score' =
                       compute_distances_and_scores(parsed.residues, loaded')
           ELSE /\ eval_state' = "raised"
                /\ distances' = EmptyDict
                /\ total_score' = 0
    /\ UNCHANGED trainVars
    /\ UNCHANGED dir

Next ==
    \/ \E files \in CorpusSet : Submit(files)
    \/ \E i \in Workers : WorkerStart(i)
    \/ \E i \in Workers : WorkerFinish(i)
    \/ Collect
    \/ CollectRaise
    \/ Shutdown
    \/ Reduce
    \/ \E f \in FileIds : Evaluate(f)

Spec == Init /\ [][Next]_vars

\* ---------------------------------------------- the reduction on its own
\* calculate_scores, write_scores and read_scores applied to aggregated
\* histograms of any size, which a model of the corpus file by file cannot
\* reach: every key holds even counts (each pair is counted twice) with a
\* positive total, as aggregate_counts produces them.
Uniform(c) == [b \in Bins |-> c]
Spike(b0, c) == [b \in Bins |-> IF b = b0 THEN c ELSE 0]
Ramp == [b \in Bins |-> 2 * (b + 1)]
NearUniform == [b \in Bins |-> IF b = 5 THEN 2 ELSE IF b = 6 THEN 6 ELSE 4]
\* one pair in bin 0 among 500000 (400000) pairs in another bin
Skewed == [b \in Bins |-> IF b = 0 THEN 2 ELSE IF b = 10 THEN 1000000 ELSE 0]
Heavy == [b \in Bins |-> IF b = 0 THEN 2 ELSE IF b = 1 THEN 800000 ELSE 0]

BaseVectors == {Uniform(2), Spike(3, 2), Ramp, NearUniform, Skewed, Heavy}

VectorInputs ==
    {[b \in Bins |-> k * v[b]] : v \in BaseVectors, k \in 1 .. MaxCopies}

HistogramInputs ==
    {("AA" :> v) : v \in VectorInputs}
    \cup {("AC" :> v) @@ ("GU" :> w) : v \in VectorInputs, w \in VectorInputs}

\* the score directory before the run: new, or left by a run on ExampleFile
PriorDirs ==
    {EmptyDict,
     write_scores(calculate_scores("AC" :> Spike(3, 2)), EmptyDict)}

InitScores ==
    /\ pc = "table"
    /\ pdb_files = << >>
    /\ fut = << >>
    /\ result = << >>
    /\ collected = 0
    /\ combined_counts \in HistogramInputs
    /\ scores = EmptyDict
    /\ dir \in PriorDirs
    /\ dir_before = dir
    /\ loaded = EmptyDict
    /\ eval_state = "none"
    /\ eval_file = 0
    /\ distances = EmptyDict
    /\ total_score = 0

\* line 88 of train.py
CalculateScores ==
    /\ pc = "table"
    /\ scores' = calculate_scores(combined_counts)
    /\ pc' = "scored"
    /\ UNCHANGED <<pdb_files, fut, result, collected, combined_counts, dir,
                   dir_before>>
    /\ UNCHANGED evalVars

\* line 89 of train.py
WriteScores ==
    /\ pc = "scored"
    /\ dir' = write_scores(scores, dir)
    /\ pc' = "written"
    /\ UNCHANGED <<pdb_files, fut, result, collected, combined_counts, scores,
                   dir_before>>
    /\ UNCHANGED evalVars

\* line 72 of scoring.py
ReadScores ==
    /\ pc = "written"
    /\ loaded' = read_scores(dir)
    /\ pc' = "read"
    /\ UNCHANGED <<pdb_files, fut, result, collected, combined_counts, scores,
                   dir, dir_before>>
    /\ UNCHANGED <<eval_state, eval_file, distances, total_score>>

NextScores == CalculateScores \/ WriteScores \/ ReadScores

SpecScores == InitScores /\ [][NextScores]_vars

\* ------------------------------------------------------------------ claims
\* what the claims say of a residue list, stated on the list itself
Positions(R) == 1 .. Len(R)

\* the unordered pairs of entries of R in the same chain, at least 3 positions
\* apart and less than 20 Angstrom apart (squared: 4 * 400 half-Angstrom^2)
Qualifying(R) ==
    {q \in Positions(R) \X Positions(R) :
        /\ q[1] < q[2]
        /\ R[q[1]].chain = R[q[2]].chain
        /\ Abs(R[q[1]].res_id - R[q[2]].res_id) >= 3
        /\ SqDist(R[q[1]].coord, R[q[2]].coord) < 1600}

\* the pair's key is the one valid pair made of its two letters
HasKey(R, q, key) ==
    \/ key = R[q[1]].res_name \o R[q[2]].res_name
    \/ key = R[q[2]].res_name \o R[q[1]].res_name

\* floor(distance) = b, i.e. b <= distance < b + 1
InBin(R, q, b) ==
    LET d2 == SqDist(R[q[1]].coord, R[q[2]].coord)
    IN  4 * b * b <= d2 /\ d2 < 4 * (b + 1) * (b + 1)

RECURSIVE SumOfSet(_, _)
SumOfSet(S, f) ==
    IF S = {} THEN 0
    ELSE LET x == CHOOSE y \in S : TRUE IN f[x] + SumOfSet(S \ {x}, f)

HistogramTotal(H) ==
    SumOfSet(DOMAIN H, [pair \in DOMAIN H |-> SumOfSet(Bins, H[pair])])

HistogramMatches(H, R) ==
    LET Q == Qualifying(R)
    IN  /\ DOMAIN H \subseteq VALID_PAIRS
        /\ \A key \in VALID_PAIRS : \A b \in Bins :
              Get(H, key, [x \in Bins |-> 0])[b]
                  = 2 * Cardinality({q \in Q : HasKey(R, q, key) /\ InBin(R, q, b)})
        /\ HistogramTotal(H) = 2 * Cardinality(Q)

ResiduesOf(f) == parse_pdb(FileCatalog[f]).residues

\* C1: the histogram built for a residue list (by a training worker, and by
\* the scorer) holds, in bin floor(distance) of the canonical pair key,
\* exactly 2 per unordered pair of entries in the same chain, at least 3
\* positions apart and less than 20 Angstrom apart, and nothing else; its
\* total is twice the number of such pairs.
C1_HistogramTotal ==
    /\ \A i \in Workers :
          fut[i] = "done" =>
              HistogramMatches(result[i].distances, ResiduesOf(pdb_files[i]))
    /\ eval_state = "scored" =>
          HistogramMatches(distances, ResiduesOf(eval_file))

\* a worker has returned the histogram of MixedFile, which has pairs in other
\* chains, pairs closer than 3 positions and a pair exactly 20 Angstrom apart
C1_Witness ==
    \E i \in Workers :
        /\ fut[i] = "done"
        /\ pdb_files[i] = 2
        /\ "CG" \in DOMAIN result[i].distances
        /\ result[i].distances["CG"][10] = 2
        /\ HistogramTotal(result[i].distances) = 6
        /\ Len(ResiduesOf(2)) = 6

Permute(seq, perm) == [k \in DOMAIN seq |-> seq[perm[k]]]

\* C3: the aggregated table is the same for every order of the histograms:
\* its keys are the union of their keys and every count is the sum of their
\* counts for that pair and bin.
C3_AggregationOrder ==
    pc = "done" =>
        /\ \A perm \in Permutations(DOMAIN all_distances) :
              aggregate_counts(Permute(all_distances, perm)) = combined_counts
        /\ DOMAIN combined_counts
              = UNION {DOMAIN all_distances[i] : i \in DOMAIN all_distances}
        /\ \A pair \in DOMAIN combined_counts : \A b \in Bins :
              combined_counts[pair][b]
                  = SumOfSet(DOMAIN all_distances,
                             [i \in DOMAIN all_distances |->
                                 Get(all_distances[i], pair,
                                     [x \in Bins |-> 0])[b]])

\* two different histograms sharing the key "AC" were aggregated
C3_Witness ==
    /\ pc = "done"
    /\ pdb_files = <<1, 2>>
    /\ combined_counts["AC"][3] = 2
    /\ combined_counts["AC"][19] = 2
    /\ "CG" \in DOMAIN combined_counts

\* no qualifying residue pair of any structure of the run maps to this key
NeverOccurs(pair) ==
    \A i \in Workers :
        LET R == ResiduesOf(pdb_files[i])
        IN  \A q \in Qualifying(R) : ~HasKey(R, q, pair)

CapLine == [sign |-> "", whole |-> CapValue, frac |-> 0]

\* C5 as stated: a pair that never occurs within 20 Angstrom in the corpus is
\* in the trained table with 20 entries equal to 10, and its file is written.
C5_SentinelPairWritten ==
    (pc = "done" /\ Len(pdb_files) > 0) =>
        \A pair \in VALID_PAIRS :
            NeverOccurs(pair) =>
                /\ pair \in DOMAIN scores
                /\ \A i \in 1 .. NumBins : scores[pair][i] = Cap
                /\ FileName(pair) \in DOMAIN dir
                /\ dir[FileName(pair)] = [i \in 1 .. NumBins |-> CapLine]

\* C5 amended: a pair that never occurs within 20 Angstrom in the corpus is
\* not a key of the trained table, and the run leaves the pair's file as it
\* was (it is neither created nor rewritten).
C5_AbsentPairNotWritten ==
    pc = "done" =>
        \A pair \in VALID_PAIRS :
            NeverOccurs(pair) =>
                /\ pair \notin DOMAIN combined_counts
                /\ pair \notin DOMAIN scores
                /\ (FileName(pair) \in DOMAIN dir)
                       = (FileName(pair) \in DOMAIN dir_before)
                /\ FileName(pair) \in DOMAIN dir =>
                       dir[FileName(pair)] = dir_before[FileName(pair)]

\* a run on ExampleFile alone ended: "CG" never occurred, "AC.txt" was written
C5_Witness ==
    /\ pc = "done"
    /\ pdb_files = <<1>>
    /\ NeverOccurs("CG")
    /\ "CG" \notin DOMAIN scores
    /\ FileName("CG") \notin DOMAIN dir
    /\ FileName("AC") \in DOMAIN dir

\* the pairs that pass the write-suppression criterion of the run
Passed == {pair \in VALID_PAIRS :
              pair \in DOMAIN scores /\ \E i \in DOMAIN scores[pair] :
                                            scores[pair][i] > 0}

\* C6: the table read from the directory after a training run holds exactly
\* the pairs that passed the write-suppression criterion in that run.
C6_LoadedIsLastRun ==
    (pc = "done" /\ Len(pdb_files) > 0 /\ eval_state # "none") =>
        DOMAIN loaded = Passed

\* the records of a file that qualify: ATOM, C3', a valid base, in file order
RECURSIVE QualifyingRecords(_, _)
QualifyingRecords(lines, k) ==
    IF k > Len(lines) THEN << >>
    ELSE IF /\ lines[k].startsATOM /\ lines[k].hasC3
            /\ lines[k].len > 21 /\ lines[k].res_id_num /\ lines[k].coord_num
            /\ lines[k].res_name \in {"A", "C", "G", "U"}
         THEN <<[chain |-> lines[k].chain, res_id |-> lines[k].res_id,
                 res_name |-> lines[k].res_name, coord |-> lines[k].coord]>>
              \o QualifyingRecords(lines, k + 1)
         ELSE QualifyingRecords(lines, k + 1)

\* C7: parse_pdb fails only when the file cannot be opened or read; for a
\* readable file it returns the well-formed qualifying records in file order.
C7_ParseFailsOnlyOnIO ==
    /\ \A i \in Workers :
          LET file == FileCatalog[pdb_files[i]]
          IN  /\ fut[i] = "failed" => ~file.readable
              /\ (fut[i] \in {"done", "failed"} /\ file.readable) =>
                     /\ parse_pdb(file).raised = "none"
                     /\ parse_pdb(file).residues = QualifyingRecords(file.lines, 1)
    /\ eval_state = "raised" => ~FileCatalog[eval_file].readable

\* tables with the keys of the loaded table and other stored values
AltTables(table) ==
    {[pair \in DOMAIN table |-> [i \in 1 .. NumBins |-> v]] :
        v \in {-7 * Micro, 0, Cap}}

\* C8: the scalar does not depend on the values stored in the table, only on
\* its keys; it is the sum, over the pairs in both the structure's histogram
\* and the table, of the 20 scores the training formula gives for the
\* structure's own counts.
C8_PresenceFilter ==
    eval_state = "scored" =>
        LET R == ResiduesOf(eval_file)
            own == calculate_scores(compute_distances(R))
            both == (DOMAIN own) \cap (DOMAIN loaded)
        IN  /\ \A alt \in AltTables(loaded) :
                  compute_distances_and_scores(R, alt) = total_score
            /\ total_score
                  = SumOfSet(both, [pair \in both |->
                                SumOfSet(1 .. NumBins, own[pair])])

\* MixedFile (pairs AC and CG) was scored against a table holding AC alone
C8_Witness ==
    /\ eval_state = "scored"
    /\ eval_file = 2
    /\ DOMAIN loaded = {"AC"}
    /\ total_score # 0
    /\ \E i \in 1 .. NumBins :
          loaded["AC"][i] # calculate_scores(compute_distances(ResiduesOf(2)))["AC"][i]

\* the directory a run on these files leaves, whatever the completion order
TrainedDir(files, before) ==
    write_scores(
        calculate_scores(
            aggregate_counts(
                [i \in DOMAIN files |->
                    process_single_file(FileCatalog[files[i]]).distances])),
        before)

\* C9: the reduction runs only after every worker has returned; when a worker
\* fails nothing is reduced or written; when all succeed the directory is the
\* same for every order in which the workers finish.
C9_Barrier ==
    /\ pc = "done" =>
          /\ collected = Len(pdb_files)
          /\ \A i \in Workers : fut[i] = "done"
          /\ dir = TrainedDir(pdb_files, dir_before)
    /\ (\E i \in Workers : fut[i] \in {"failed", "cancelled"}) =>
          /\ pc # "done"
          /\ dir = dir_before
          /\ scores = EmptyDict
    /\ pc \in {"map", "raising", "aborted"} => dir = dir_before

\* a batch was aborted although its first worker had returned a histogram
C9_Witness ==
    /\ pc = "aborted"
    /\ Len(pdb_files) = 2
    /\ fut[1] = "done"
    /\ fut[2] = "failed"
    /\ collected = 1
    /\ "AC" \in DOMAIN result[1].distances
    /\ dir = dir_before

TotalOf(counts) == SumOfSet(Bins, counts)

\* C2 as stated: every score is <= 10, and a score is 10 exactly when the
\* bin's observed frequency is 0 (count = 0 or total = 0).
C2_TenIffUnobserved ==
    pc # "table" =>
        \A pair \in DOMAIN scores : \A i \in 1 .. NumBins :
            LET count == combined_counts[pair][i - 1]
                total == TotalOf(combined_counts[pair])
            IN  /\ scores[pair][i] <= Cap
                /\ (scores[pair][i] = Cap) = (count = 0 \/ total = 0)

\* C2 amended: every score is <= 10, and a score is 10 exactly when the bin's
\* observed frequency is 0 or so small that the uncapped log-odds reaches 10:
\* 20 * count / total <= e^-10, i.e. total >= 440529.32 * count.
C2_TenIffUnobservedOrCapped ==
    pc # "table" =>
        \A pair \in DOMAIN scores : \A i \in 1 .. NumBins :
            LET count == combined_counts[pair][i - 1]
                total == TotalOf(combined_counts[pair])
            IN  /\ scores[pair][i] <= Cap
                /\ (count = 0 \/ total = 0 \/ (total \div 440530) >= count)
                       => scores[pair][i] = Cap
                /\ (count > 0 /\ (total \div 440529) < count)
                       => scores[pair][i] < Cap

\* a bin that was observed has the score 10, next to a bin that was not
C2_Witness ==
    /\ pc = "scored"
    /\ \E pair \in DOMAIN scores :
          /\ combined_counts[pair][0] > 0
          /\ scores[pair][1] = Cap
          /\ combined_counts[pair][1] = 0
          /\ scores[pair][2] = Cap
          /\ scores[pair][11] < 0

\* the multiple of 10^-4 nearest to x, ties to the even one
Round4(x) ==
    LET low == (x \div 100) * 100
    IN  CHOOSE r \in {low, low + 100} :
            \/ Abs(r - x) < 50
            \/ Abs(r - x) = 50 /\ (r \div 100) % 2 = 0

\* C4: after write_scores and read_scores on the same directory, every pair
\* that passed the write-suppression criterion is read back as 20 values, in
\* bin order, each the written score rounded to 4 decimals.
C4_RoundTrip ==
    pc = "read" =>
        \A pair \in Passed :
            /\ pair \in DOMAIN loaded
            /\ DOMAIN loaded[pair] = 1 .. 20
            /\ \A i \in 1 .. 20 : loaded[pair][i] = Round4(scores[pair][i])

\* a pair was written and read back, and rounding changed a value that was
\* rounded up and a negative value
C4_Witness ==
    /\ pc = "read"
    /\ \E pair \in Passed : \E i, j \in 1 .. 20 :
          /\ loaded[pair][i] > scores[pair][i]
          /\ scores[pair][j] < 0
          /\ loaded[pair][j] # scores[pair][j]

AllSamePositive(counts) ==
    /\ counts[0] > 0
    /\ \A b \in Bins : counts[b] = counts[0]

\* C10: for a key of the aggregated table (total > 0) whose file does not
\* exist yet, write_scores leaves the file out exactly when all 20 bins hold
\* the same positive count, every score then being 0; any other distribution
\* has a bin below the reference frequency, whose score is > 0, and its file
\* holds the 20 scores.
C10_OmittedIffUniform ==
    pc \in {"written", "read"} =>
        \A pair \in DOMAIN combined_counts :
            LET counts == combined_counts[pair]
                file == FileName(pair)
            IN  /\ TotalOf(counts) > 0
                /\ AllSamePositive(counts) =>
                      /\ \A i \in 1 .. NumBins : scores[pair][i] = 0
                      /\ (file \in DOMAIN dir) = (file \in DOMAIN dir_before)
                      /\ file \in DOMAIN dir => dir[file] = dir_before[file]
                /\ ~AllSamePositive(counts) =>
                      /\ \E b \in Bins :
                            /\ 20 * counts[b] < TotalOf(counts)
                            /\ scores[pair][b + 1] > 0
                      /\ file \in DOMAIN dir
                      /\ DOMAIN dir[file] = 1 .. NumBins
                      /\ \A i \in 1 .. NumBins :
                            ParseFloat(dir[file][i]) = Round4(scores[pair][i])

\* a table with a uniform key, left out, and another key, written
C10_Witness ==
    /\ pc = "written"
    /\ dir_before = EmptyDict
    /\ DOMAIN combined_counts = {"AC", "GU"}
    /\ AllSamePositive(combined_counts["AC"])
    /\ ~AllSamePositive(combined_counts["GU"])
    /\ DOMAIN dir = {FileName("GU")}

====
